---- MODULE Spec2Model ----
(***************************************************************************)
(* State-machine model of the four programs of the repository:             *)
(*   graphml_to_fact.py     parse_kegg_graphml  (fact generation)           *)
(*   parse_kegg_graphml.py  classify_node, parse_kegg_graphml (consolidate) *)
(*   tsv_to_graphml.py      parse_summary, create_graphml                   *)
(*   watt_lib.py            generate_watts_strogatz_facts                   *)
(* Python strings are sequences of one-character strings, so that lower(),  *)
(* `in`, startswith and endswith are computed, not tabulated.  Python's     *)
(* None is the one-element sequence <<"None">>, which is no string.         *)
(***************************************************************************)
EXTENDS Integers, Sequences, FiniteSets, Bags, TLC

VARIABLES
    pc,               \* position of the running program
    nodes,            \* `nodes` of graphml_to_fact.py / tsv_to_graphml.py
    edges,            \* `edges` of graphml_to_fact.py / tsv_to_graphml.py
    seenCompound,     \* input record: ids parsed with node_type 'compound'
    curPairs,         \* input record: (source, target) pairs of the open document
    docsWith,         \* input record: pair -> documents holding it
    occurrences,      \* input record: pair -> edge elements holding it
    nodes_facts,      \* rows of <prefix>_nodes.facts (bag: set iteration order)
    edges_facts,      \* rows of <prefix>_edges.facts (sequence)
    sensitive_facts,  \* rows of <prefix>_sensitive.facts (bag)
    row,              \* tsv_to_graphml.py: the row the reader yielded
    outcome,          \* record of what the last loop body did with its row
    graph_nodes,      \* tsv_to_graphml.py: node elements of the written graph
    graph_edges,      \* tsv_to_graphml.py: edge elements of the written graph
    arg_node_id,      \* classify_node: argument node_id
    arg_description,  \* classify_node: argument description
    node_class,       \* classify_node: returned value
    param_n,          \* watt_lib.py: parameter n
    G_und,            \* watt_lib.py: the edges of G_und, as G_und.edges() reports them
    pending,          \* watt_lib.py: what the running enumeration has yet to yield
    dict_node_type,   \* watt_lib.py: dict node_type
    sensitive_nodes,  \* watt_lib.py: list sensitive_nodes
    sorted_list       \* watt_lib.py: the list sorted(...) is building

\* input record of graphml_to_fact.py
factIn == <<seenCompound, curPairs, docsWith, occurrences>>
\* state of graphml_to_fact.py besides pc, nodes, edges
factVars == <<factIn, nodes_facts, edges_facts, sensitive_facts>>
\* state of tsv_to_graphml.py besides pc, nodes, edges
tsvVars == <<row, outcome, graph_nodes, graph_edges>>
\* state of a call of classify_node
clsVars == <<arg_node_id, arg_description, node_class>>
\* state of watt_lib.py besides pc and the three files
wattsVars == <<param_n, G_und, pending, dict_node_type, sensitive_nodes, sorted_list>>

vars == <<pc, nodes, edges, factVars, tsvVars, clsVars, wattsVars>>

---------------------------------------------------------------------------
(* Python str                                                              *)

UpperCase == <<"A","B","C","D","E","F","G","H","I","J","K","L","M",
               "N","O","P","Q","R","S","T","U","V","W","X","Y","Z">>
LowerCase == <<"a","b","c","d","e","f","g","h","i","j","k","l","m",
               "n","o","p","q","r","s","t","u","v","w","x","y","z">>

\* str.lower() on one character
LowerChar(c) ==
    IF \E i \in 1..26 : UpperCase[i] = c
    THEN LowerCase[CHOOSE i \in 1..26 : UpperCase[i] = c]
    ELSE c

\* str.lower()
Lower(s) == [i \in 1..Len(s) |-> LowerChar(s[i])]

\* `sub in s`
Contains(sub, s) ==
    \E i \in 0..(Len(s) - Len(sub)) : SubSeq(s, i + 1, i + Len(sub)) = sub

\* s.startswith(p)
StartsWith(s, p) == Len(p) <= Len(s) /\ SubSeq(s, 1, Len(p)) = p

\* s.endswith(p)
EndsWith(s, p) ==
    Len(p) <= Len(s) /\ SubSeq(s, Len(s) - Len(p) + 1, Len(s)) = p

\* Python's None (an element's text is None when the element is empty)
None == <<"None">>

s_empty     == <<>>
s_compound  == <<"c","o","m","p","o","u","n","d">>
s_pathway   == <<"p","a","t","h","w","a","y">>
s_enzyme    == <<"e","n","z","y","m","e">>
s_reaction  == <<"r","e","a","c","t","i","o","n">>
s_group     == <<"g","r","o","u","p">>
s_normal    == <<"n","o","r","m","a","l">>
s_sink      == <<"s","i","n","k">>
s_sanitizer == <<"s","a","n","i","t","i","z","e","r">>
s_source    == <<"s","o","u","r","c","e">>
s_drug      == <<"d","r","u","g">>
s_drug_     == <<"d","r","u","g","_">>

---------------------------------------------------------------------------
(* graphml_to_fact.py                                                      *)

MaxEdges == 2      \* edge elements read over the whole batch

\* TYPE_MAPPING.get(node_type, 'normal')
TYPE_MAPPING(node_type) ==
    CASE node_type = s_compound -> s_normal
      [] node_type = s_pathway  -> s_sink
      [] node_type = s_enzyme   -> s_sanitizer
      [] node_type = s_reaction -> s_normal
      [] node_type = s_group    -> s_normal
      [] OTHER                  -> s_normal

\* identifiers of the input documents
id_C1   == <<"C","1">>
id_Drug == <<"D","r","u","g","7">>
Ids == {id_C1, id_Drug}

\* texts of <data key="type"> entries
s_Pathway == <<"P","a","t","h","w","a","y">>
s_gene    == <<"g","e","n","e">>
TypeTexts == {s_compound, s_Pathway, s_gene, None}
\* the <data key="type"> entries of one node element, in document order
TypeData == {<<>>} \cup {<<t>> : t \in TypeTexts}
                   \cup {<<s_gene, t>> : t \in {s_Pathway, None}}

\* texts of <data key="label"> entries
s_act == <<"a","c","t">>
LabelData == {<<>>, <<s_act>>, <<None>>}

\* node_type after the loop of lines 31-35 (the last entry wins);
\* defined only when no entry has text None
NodeType(types, i) ==
    IF i = 0 THEN s_compound ELSE Lower(types[i])

\* label after the loop of lines 45-47 (the last entry wins)
EdgeLabel(labels) ==
    IF Len(labels) = 0 THEN s_empty ELSE labels[Len(labels)]

\* the variables of the programs that are not running
IdleFact ==
    /\ seenCompound = {}
    /\ curPairs = {}
    /\ docsWith = <<>>
    /\ occurrences = <<>>
IdleTsv ==
    /\ row = <<>>
    /\ outcome = "none"
    /\ graph_nodes = {}
    /\ graph_edges = <<>>
IdleClassify ==
    /\ arg_node_id = <<>>
    /\ arg_description = <<>>
    /\ node_class = None
IdleWatts ==
    /\ param_n = 0
    /\ G_und = {}
    /\ pending = {}
    /\ dict_node_type = <<>>
    /\ sensitive_nodes = <<>>
    /\ sorted_list = <<>>

InitFact ==
    /\ pc = "listdir"
    /\ nodes = {}
    /\ edges = <<>>
    /\ seenCompound = {}
    /\ curPairs = {}
    /\ docsWith = [p \in Ids \X Ids |-> 0]
    /\ occurrences = [p \in Ids \X Ids |-> 0]
    /\ nodes_facts = EmptyBag
    /\ edges_facts = <<>>
    /\ sensitive_facts = EmptyBag
    /\ IdleTsv /\ IdleClassify /\ IdleWatts

\* line 19-20: a directory entry that is not a .graphml file
SkipFile ==
    /\ pc = "listdir"
    /\ UNCHANGED vars

\* line 22: ET.parse raises ParseError on unparsable markup; nothing catches it
OpenBadFile ==
    /\ pc = "listdir"
    /\ pc' = "aborted"
    /\ UNCHANGED <<nodes, edges, seenCompound, curPairs, docsWith, occurrences,
                   nodes_facts, edges_facts, sensitive_facts>>
    /\ UNCHANGED <<tsvVars, clsVars, wattsVars>>

\* lines 21-26: a well-formed document is opened
OpenFile ==
    /\ pc = "listdir"
    /\ pc' = "nodes"
    /\ curPairs' = {}
    /\ UNCHANGED <<nodes, edges, seenCompound, docsWith, occurrences,
                   nodes_facts, edges_facts, sensitive_facts>>
    /\ UNCHANGED <<tsvVars, clsVars, wattsVars>>

\* lines 29-39: one node element.  data.text.lower() raises AttributeError at
\* the first entry whose text is None, before nodes.add
ParseNode(node_id, types) ==
    /\ pc = "nodes"
    /\ IF \E i \in 1..Len(types) : types[i] = None
       THEN /\ pc' = "aborted"
            /\ UNCHANGED <<nodes, seenCompound>>
       ELSE LET node_type == NodeType(types, Len(types))
                mapped_type == TYPE_MAPPING(node_type)
            IN  /\ nodes' = nodes \cup {<<node_id, mapped_type>>}
                /\ seenCompound' =
                       IF node_type = s_compound
                       THEN seenCompound \cup {node_id} ELSE seenCompound
                /\ pc' = pc
    /\ UNCHANGED <<edges, curPairs, docsWith, occurrences,
                   nodes_facts, edges_facts, sensitive_facts>>
    /\ UNCHANGED <<tsvVars, clsVars, wattsVars>>

\* line 42: the node loop ends, the edge loop starts
EndNodes ==
    /\ pc = "nodes"
    /\ pc' = "edges"
    /\ UNCHANGED <<nodes, edges, seenCompound, curPairs, docsWith, occurrences,
                   nodes_facts, edges_facts, sensitive_facts>>
    /\ UNCHANGED <<tsvVars, clsVars, wattsVars>>

\* a variant that keeps one entry per (source, target) pair
AppendEdgeOnce(es, source, target, label) ==
    IF \E i \in 1..Len(es) : es[i][1] = source /\ es[i][2] = target
    THEN es
    ELSE Append(es, <<source, target, label>>)

\* edges.append((source, target, label)) of line 48
AppendEdge(es, source, target, label) == Append(es, <<source, target, label>>)

\* lines 42-48: one edge element
ParseEdge(source, target, labels) ==
    /\ pc = "edges"
    /\ Len(edges) < MaxEdges
    /\ edges' = AppendEdge(edges, source, target, EdgeLabel(labels))
    /\ LET p == <<source, target>>
       IN  /\ curPairs' = curPairs \cup {p}
           /\ occurrences' = [occurrences EXCEPT ![p] = @ + 1]
           /\ docsWith' = IF p \in curPairs THEN docsWith
                                            ELSE [docsWith EXCEPT ![p] = @ + 1]
    /\ UNCHANGED <<pc, nodes, seenCompound,
                   nodes_facts, edges_facts, sensitive_facts>>
    /\ UNCHANGED <<tsvVars, clsVars, wattsVars>>

\* the edge loop ends: back to line 19
EndDoc ==
    /\ pc = "edges"
    /\ pc' = "listdir"
    /\ UNCHANGED <<nodes, edges, seenCompound, curPairs, docsWith, occurrences,
                   nodes_facts, edges_facts, sensitive_facts>>
    /\ UNCHANGED <<tsvVars, clsVars, wattsVars>>

\* lines 51-54
Sources(ns) ==
    {n[1] : n \in {m \in ns : \/ Contains(s_drug, Lower(m[1]))
                              \/ Contains(s_compound, Lower(m[2]))}}

\* lines 59-62: the row written for one element of nodes
NodeRow(n, sources) ==
    <<n[1], IF n[1] \in sources THEN s_source ELSE n[2]>>

\* csv.writer writes None as the empty field
CsvField(v) == IF v = None THEN s_empty ELSE v

\* lines 66-67
EdgeRow(e) == <<e[1], e[2], CsvField(e[3])>>

\* line 73
SensitiveRow(node_id) == <<s_drug_ \o node_id, node_id>>

\* writer.writerow once per element of a set: the rows f[x], x in the domain
\* of f, as a bag (the order of iteration of a set is not specified)
RowsWritten(f) ==
    [r \in {f[x] : x \in DOMAIN f} |->
        Cardinality({x \in DOMAIN f : f[x] = r})]

\* lines 50-73: the loop over the directory is over; the three files are written
WriteFacts ==
    /\ pc = "listdir"
    /\ LET sources == Sources(nodes)
       IN  /\ nodes_facts' =
                  RowsWritten([x \in nodes |-> NodeRow(x, sources)])
           /\ edges_facts' = [i \in 1..Len(edges) |-> EdgeRow(edges[i])]
           /\ sensitive_facts' =
                  RowsWritten([x \in sources |-> SensitiveRow(x)])
    /\ pc' = "done"
    /\ UNCHANGED <<nodes, edges, seenCompound, curPairs, docsWith, occurrences>>
    /\ UNCHANGED <<tsvVars, clsVars, wattsVars>>

NextFact ==
    \/ SkipFile
    \/ OpenBadFile
    \/ OpenFile
    \/ \E node_id \in Ids, types \in TypeData : ParseNode(node_id, types)
    \/ EndNodes
    \/ \E source \in Ids, target \in Ids, labels \in LabelData :
           ParseEdge(source, target, labels)
    \/ EndDoc
    \/ WriteFacts

SpecFact == InitFact /\ [][NextFact]_vars

---------------------------------------------------------------------------
(* Properties of graphml_to_fact.py                                        *)

\* identifiers of the rows of nodes.facts
NodeFactIds == {r[1] : r \in BagToSet(nodes_facts)}

\* number of rows of nodes.facts whose identifier is id
NodeRowCount(id) ==
    LET rs == {r \in BagToSet(nodes_facts) : r[1] = id}
    IN  IF rs = {} THEN 0 ELSE BagCardinality([r \in rs |-> nodes_facts[r]])

\* number of rows of edges.facts for the pair p
EdgeRowCount(p) ==
    Cardinality({i \in 1..Len(edges_facts) :
                    <<edges_facts[i][1], edges_facts[i][2]>> = p})

\* C1: once the files are written, every source and target of a row of
\* edges.facts is the identifier of a row of nodes.facts (no dangling edge).
C1_NoDanglingEdge ==
    pc = "done" =>
        \A i \in 1..Len(edges_facts) :
            /\ edges_facts[i][1] \in NodeFactIds
            /\ edges_facts[i][2] \in NodeFactIds

\* C2: once the files are written, every identifier observed as a node has
\* exactly one row in nodes.facts.
C2_OneRowPerIdentifier ==
    pc = "done" => \A n \in nodes : NodeRowCount(n[1]) = 1

\* C3: once the files are written, every node whose identifier contains
\* "drug" or that was declared with type compound (explicitly or by default)
\* has role source in nodes.facts and a row in sensitive.facts.
C3_CompoundPromoted ==
    pc = "done" =>
        \A n \in nodes :
            (Contains(s_drug, Lower(n[1])) \/ n[1] \in seenCompound) =>
                /\ \A r \in BagToSet(nodes_facts) :
                       r[1] = n[1] => r[2] = s_source
                /\ SensitiveRow(n[1]) \in BagToSet(sensitive_facts)

\* C4: no document, whatever its content, aborts the run: the run never
\* leaves the directory loop without writing its output.
C4_NeverAborts == pc # "aborted"

---------------------------------------------------------------------------
(* tsv_to_graphml.py                                                       *)

MaxTokens == 4      \* tokens of one summary string
MaxGraphEdges == 2  \* rows are read while the edge list is shorter than this

IsDigit(c) == c \in {"0","1","2","3","4","5","6","7","8","9"}

\* the last index of the run of digits that starts at i (i - 1 if none does)
DigitsEnd(s, i) ==
    CHOOSE j \in (i - 1)..Len(s) :
        /\ \A k \in i..j : IsDigit(s[k])
        /\ j = Len(s) \/ ~IsDigit(s[j + 1])

\* the text matched at position i by  name\[(letter\d+)\]  as <<group 1, end>>,
\* or <<>> when the pattern does not match at i
MatchBracket(s, i, name, letter) ==
    LET q == i + Len(name) + 1      \* where the letter must be
        e == DigitsEnd(s, q + 1)
    IN  IF /\ q + 2 <= Len(s)
           /\ SubSeq(s, i, q - 1) = name \o <<"[">>
           /\ s[q] = letter
           /\ e >= q + 1
           /\ e + 1 <= Len(s)
           /\ s[e + 1] = "]"
        THEN <<SubSeq(s, q, e), e + 1>>
        ELSE <<>>

\* the text matched at position i by  (E\d+)  as <<group 1, end>>, or <<>>
MatchHop(s, i) ==
    IF i + 1 <= Len(s) /\ s[i] = "E" /\ IsDigit(s[i + 1])
    THEN <<SubSeq(s, i, DigitsEnd(s, i + 1)), DigitsEnd(s, i + 1)>>
    ELSE <<>>

\* re.findall: scan from position i, left to right, matches do not overlap
RECURSIVE FindAllBracket(_, _, _, _)
FindAllBracket(s, i, name, letter) ==
    IF i > Len(s) THEN <<>>
    ELSE LET m == MatchBracket(s, i, name, letter)
         IN  IF m = <<>> THEN FindAllBracket(s, i + 1, name, letter)
             ELSE <<m[1]>> \o FindAllBracket(s, m[2] + 1, name, letter)

RECURSIVE FindAllHops(_, _)
FindAllHops(s, i) ==
    IF i > Len(s) THEN <<>>
    ELSE LET m == MatchHop(s, i)
         IN  IF m = <<>> THEN FindAllHops(s, i + 1)
             ELSE <<m[1]>> \o FindAllHops(s, m[2] + 1)

\* re.search(...).group(1) if the pattern matches, else None
SearchBracket(s, name, letter) ==
    LET all == FindAllBracket(s, 1, name, letter)
    IN  IF all = <<>> THEN None ELSE all[1]

t_Source       == <<"S","o","u","r","c","e">>
t_Sink         == <<"S","i","n","k">>
t_Sanitizer    == <<"S","a","n","i","t","i","z","e","r">>
t_SensFromType == <<"S","e","n","s","F","r","o","m","T","y","p","e">>

parse_summary(summary_str) ==
    [source     |-> SearchBracket(summary_str, t_Source, "N"),
     sink       |-> SearchBracket(summary_str, t_Sink, "N"),
     sanitizers |-> FindAllBracket(summary_str, 1, t_Sanitizer, "N"),
     sensitive  |-> FindAllBracket(summary_str, 1, t_SensFromType, "S"),
     reaches    |-> FindAllHops(summary_str, 1)]

\* `not x` for x a string or None
Not(x) == x = None \/ x = s_empty

\* a variant that skips only the rows that lack both tokens
InvalidRowBoth(parsed) == Not(parsed.source) /\ Not(parsed.sink)

\* line 40: `if not source or not sink`
InvalidRow(parsed) == Not(parsed.source) \/ Not(parsed.sink)

Range(q) == {q[i] : i \in 1..Len(q)}

\* lines 44-48
RowNodes(parsed) ==
    {parsed.source, parsed.sink} \cup Range(parsed.sanitizers)
        \cup Range(parsed.sensitive) \cup Range(parsed.reaches)

\* lines 51-55: the chain source -> reaches... -> sink
ChainEdges(source, reaches, sink, path_type) ==
    [j \in 1..(Len(reaches) + 1) |->
        <<IF j = 1 THEN source ELSE reaches[j - 1],
          IF j = Len(reaches) + 1 THEN sink ELSE reaches[j],
          path_type>>]

\* lines 58-60: two edges per sanitizer
SanitizerEdges(source, sanitizers, sink) ==
    [j \in 1..(2 * Len(sanitizers)) |->
        IF j % 2 = 1 THEN <<source, sanitizers[(j + 1) \div 2], s_sanitizer>>
                     ELSE <<sanitizers[j \div 2], sink, s_sanitizer>>]

\* a variant that routes the chain through the sanitizers as well
RowEdgesThroughSanitizers(parsed, path_type) ==
    ChainEdges(parsed.source, parsed.reaches \o parsed.sanitizers,
               parsed.sink, path_type)
        \o SanitizerEdges(parsed.source, parsed.sanitizers, parsed.sink)

\* lines 51-60: the edges one valid row appends
RowEdges(parsed, path_type) ==
    ChainEdges(parsed.source, parsed.reaches, parsed.sink, path_type)
        \o SanitizerEdges(parsed.source, parsed.sanitizers, parsed.sink)

\* str(idx) for a small index
Decimal(n) ==
    LET d == <<"0","1","2","3","4","5","6","7","8","9">>
    IN  IF n < 10 THEN <<d[n + 1]>> ELSE <<d[(n \div 10) + 1], d[(n % 10) + 1]>>

\* the pieces a summary string is made of
s_SourceN1  == t_Source \o <<"[","N","1","]">>
s_SinkN9    == t_Sink \o <<"[","N","9","]">>
s_SanitN3   == t_Sanitizer \o <<"[","N","3","]">>
s_SensS1    == t_SensFromType \o <<"[","S","1","]">>
s_E5        == <<"E","5">>
s_E2        == <<"E","2">>
Pieces == {s_SourceN1, s_SinkN9, s_SanitN3, s_SensS1, s_E5, s_E2}

RECURSIVE Concat(_)
Concat(q) == IF q = <<>> THEN <<>> ELSE Head(q) \o Concat(Tail(q))

\* the summary strings: up to MaxTokens distinct pieces, concatenated
Summaries ==
    {Concat(q) : q \in
        {f \in UNION {[1..n -> Pieces] : n \in 0..MaxTokens} :
            \A i, j \in DOMAIN f : f[i] = f[j] => i = j}}

s_complete  == <<"c","o","m","p","l","e","t","e">>
s_sanitized == <<"s","a","n","i","t","i","z","e","d">>
PathTypes == {s_complete, s_sanitized}

\* the rows csv.reader can yield: [] for a blank line, else the columns
Rows == {<<>>} \cup {<<s, p>> : s \in Summaries, p \in PathTypes}

InitTsv ==
    /\ pc = "reader"
    /\ nodes = {}
    /\ edges = <<>>
    /\ row = <<>>
    /\ outcome = "none"
    /\ graph_nodes = {}
    /\ graph_edges = <<>>
    /\ nodes_facts = EmptyBag
    /\ edges_facts = <<>>
    /\ sensitive_facts = EmptyBag
    /\ IdleFact /\ IdleClassify /\ IdleWatts

\* line 34: the reader yields the next row
ReadRow(r) ==
    /\ pc = "reader"
    /\ Len(edges) < MaxGraphEdges
    /\ row' = r
    /\ pc' = "body"
    /\ UNCHANGED <<nodes, edges, outcome, graph_nodes, graph_edges, factVars, clsVars, wattsVars>>

\* lines 35-60: the loop body.  row[0] raises IndexError on an empty row and
\* nothing catches it.  row is rebound before it is read again: the model
\* forgets it when the body ends.
RowBody ==
    /\ pc = "body"
    /\ IF Len(row) = 0
       THEN /\ pc' = "aborted"
            /\ UNCHANGED <<nodes, edges, row, outcome>>
       ELSE LET summary_str == row[1]
                path_type == row[Len(row)]
                parsed == parse_summary(summary_str)
            IN  /\ pc' = "reader"
                /\ row' = <<>>
                /\ IF InvalidRow(parsed)
                   THEN /\ outcome' = "skipped"
                        /\ UNCHANGED <<nodes, edges>>
                   ELSE /\ outcome' = "appended"
                        /\ nodes' = nodes \cup RowNodes(parsed)
                        /\ edges' = edges \o RowEdges(parsed, path_type)
    /\ UNCHANGED <<graph_nodes, graph_edges, factVars, clsVars, wattsVars>>

\* lines 63-79: the reader is exhausted; the graph document is written
WriteGraphml ==
    /\ pc = "reader"
    /\ pc' = "done"
    /\ graph_nodes' = nodes
    /\ graph_edges' = [i \in 1..Len(edges) |->
                         [id |-> <<"e">> \o Decimal(i - 1),
                          source |-> edges[i][1],
                          target |-> edges[i][2],
                          label |-> edges[i][3]]]
    /\ UNCHANGED <<nodes, edges, row, outcome, factVars, clsVars, wattsVars>>

NextTsv ==
    \/ \E r \in Rows : ReadRow(r)
    \/ RowBody
    \/ WriteGraphml

SpecTsv == InitTsv /\ [][NextTsv]_vars

---------------------------------------------------------------------------
(* Properties of tsv_to_graphml.py                                         *)

\* where  name[letterDIGITS]  occurs in s
TokenPositions(s, name, letter) ==
    {i \in 1..Len(s) : MatchBracket(s, i, name, letter) # <<>>}

\* where a hop identifier E<digits> starts in s
HopPositions(s) == {i \in 1..Len(s) : MatchHop(s, i) # <<>>}

\* the j-th smallest element of P
Nth(P, j) == CHOOSE i \in P : Cardinality({q \in P : q <= i}) = j

\* the row in `row` has a summary with a Source[...] and a Sink[...] token
ValidRowRead ==
    /\ pc = "body"
    /\ Len(row) > 0
    /\ TokenPositions(row[1], t_Source, "N") # {}
    /\ TokenPositions(row[1], t_Sink, "N") # {}

\* C5: the body of the loop always returns to the reader, whatever the row
\* (an empty row, a row without Source or Sink): no row ends the run.
C5_EveryRowReturnsToReader == [][pc = "body" => pc' = "reader"]_vars

\* C6: the body appends, for a valid row with source s, sink t, hops h1..hk
\* by position in the text, sanitizers z1..zm and path type p, exactly the
\* chain (s,h1,p),(h1,h2,p),...,(hk,t,p) and then (s,zi,"sanitizer"),
\* (zi,t,"sanitizer") for each zi.
C6_RowEdges ==
    [][ValidRowRead =>
        LET str == row[1]
            p == row[Len(row)]
            s == MatchBracket(str, Nth(TokenPositions(str, t_Source, "N"), 1),
                              t_Source, "N")[1]
            t == MatchBracket(str, Nth(TokenPositions(str, t_Sink, "N"), 1),
                              t_Sink, "N")[1]
            H == HopPositions(str)
            k == Cardinality(H)
            h(j) == MatchHop(str, Nth(H, j))[1]
            Z == TokenPositions(str, t_Sanitizer, "N")
            m == Cardinality(Z)
            z(j) == MatchBracket(str, Nth(Z, j), t_Sanitizer, "N")[1]
            old == Len(edges)
        IN  /\ Len(edges') = old + k + 1 + 2 * m
            /\ SubSeq(edges', 1, old) = edges
            /\ \A j \in 1..(k + 1) :
                   edges'[old + j] = <<IF j = 1 THEN s ELSE h(j - 1),
                                       IF j = k + 1 THEN t ELSE h(j), p>>
            /\ \A j \in 1..m :
                   /\ edges'[old + k + 2 * j] = <<s, z(j), s_sanitizer>>
                   /\ edges'[old + k + 2 * j + 1] = <<z(j), t, s_sanitizer>>
       ]_vars

\* a row whose hops are E5 then E2 has been chained in that order
C6_Witness ==
    /\ outcome = "appended"
    /\ \E p \in PathTypes :
           edges = << <<<<"N","1">>, s_E5, p>>, <<s_E5, s_E2, p>>,
                      <<s_E2, <<"N","9">>, p>> >>

\* C7: the body leaves nodes and edges unchanged for a row whose summary has
\* no Source[...] token or no Sink[...] token, whatever else the row names.
C7_InvalidRowContributesNothing ==
    [][(pc = "body" /\ Len(row) > 0 /\ ~ValidRowRead)
          => (nodes' = nodes /\ edges' = edges)]_vars

\* a row was skipped after a valid row, whose nodes and edges are still there
C7_Witness ==
    /\ pc = "reader"
    /\ outcome = "skipped"
    /\ nodes # {}
    /\ edges # <<>>

---------------------------------------------------------------------------
(* parse_kegg_graphml.py: classify_node                                    *)

MaxIdPieces == 2    \* pieces of one node identifier

s_map       == <<"m","a","p">>
s_ec        == <<"e","c">>
s_ase       == <<"a","s","e">>
s_cysteine  == <<"c","y","s","t","e","i","n","e">>
s_coenzyme  == <<"c","o","e","n","z","y","m","e">>
s_benzyme   == <<"[","e","n","z","y","m","e","]">>
s_f420      == <<"f","4","2","0">>
s_f_420     == <<"f","-","4","2","0">>
s_coenzyme_f420 == s_coenzyme \o <<"_">> \o s_f420
s_D         == <<"D">>

\* lines 39-42
enzyme_indicators ==
    {s_enzyme, s_ec, s_ase, s_cysteine, s_coenzyme, s_benzyme,
     s_f420, s_f_420, s_coenzyme_f420}

\* line 29: description.lower() if description else ""
DescLower(desc) == IF Not(desc) THEN s_empty ELSE Lower(desc)

\* lines 32-35
SinkRule(id, desc) ==
    \/ Contains(s_pathway, Lower(id))
    \/ Contains(s_map, Lower(id))
    \/ EndsWith(id, s_map)
    \/ Contains(s_pathway, DescLower(desc))

\* lines 43-44
SanitizerRule(id, desc) ==
    \/ \E indicator \in enzyme_indicators : Contains(indicator, Lower(id))
    \/ \E indicator \in enzyme_indicators : Contains(indicator, DescLower(desc))

\* lines 48-50
SourceRule(id, desc) ==
    \/ Contains(s_drug, Lower(id))
    \/ Contains(s_drug, DescLower(desc))
    \/ StartsWith(id, s_D)

\* a variant that tests the source rule first
classify_node_source_first(id, desc) ==
    IF SourceRule(id, desc) THEN s_source
    ELSE IF SinkRule(id, desc) THEN s_sink
    ELSE IF SanitizerRule(id, desc) THEN s_sanitizer
    ELSE s_normal

\* lines 25-53
classify_node(id, desc) ==
    IF SinkRule(id, desc) THEN s_sink
    ELSE IF SanitizerRule(id, desc) THEN s_sanitizer
    ELSE IF SourceRule(id, desc) THEN s_source
    ELSE s_normal

\* node identifiers: up to MaxIdPieces of these pieces, concatenated
IdPieces ==
    {s_map, <<"M","A","P">>, s_drug, <<"D">>, <<"d">>, s_ec, <<"C","0","1">>,
     <<"P","a","t","h","w","a","y">>, <<"A","S","E">>}
ClassifyIds ==
    {Concat(q) : q \in UNION {[1..k -> IdPieces] : k \in 1..MaxIdPieces}}

\* descriptions: '' when the node has no d1 entry
s_kinase == <<"k","i","n","a","s","e">>
s_water  == <<"W","a","t","e","r">>
ClassifyDescriptions ==
    {s_empty, s_water, s_kinase, <<"D","r","u","g">>,
     <<"P","A","T","H","W","A","Y">>}

InitClassify ==
    /\ pc = "call"
    /\ arg_node_id \in ClassifyIds
    /\ arg_description \in ClassifyDescriptions
    /\ node_class = None
    /\ nodes = {}
    /\ edges = <<>>
    /\ nodes_facts = EmptyBag
    /\ edges_facts = <<>>
    /\ sensitive_facts = EmptyBag
    /\ IdleFact /\ IdleTsv /\ IdleWatts

\* line 104: node_class = classify_node(node_id, description)
Classify ==
    /\ pc = "call"
    /\ node_class' = classify_node(arg_node_id, arg_description)
    /\ pc' = "returned"
    /\ UNCHANGED <<arg_node_id, arg_description, nodes, edges,
                   factVars, tsvVars, wattsVars>>

NextClassify == Classify

SpecClassify == InitClassify /\ [][NextClassify]_vars

\* C8: the rules apply in the order sink, sanitizer, source, normal and the
\* first match wins: sink whenever the sink rule matches (so an identifier
\* with a map or pathway token that also has a drug token or the D prefix is
\* sink), sanitizer only when the sink rule does not match, source only when
\* neither the sink nor the sanitizer rule matches.
C8_ClassifyPriority ==
    pc = "returned" =>
        LET id == arg_node_id
            desc == arg_description
        IN  /\ SinkRule(id, desc) => node_class = s_sink
            /\ ( /\ Contains(s_map, Lower(id)) \/ Contains(s_pathway, Lower(id))
                 /\ Contains(s_drug, Lower(id)) \/ StartsWith(id, s_D) )
                   => node_class = s_sink
            /\ node_class = s_sanitizer
                   => ~SinkRule(id, desc) /\ SanitizerRule(id, desc)
            /\ node_class = s_source
                   => /\ ~SinkRule(id, desc)
                      /\ ~SanitizerRule(id, desc)
                      /\ SourceRule(id, desc)
            /\ node_class = s_normal
                   => /\ ~SinkRule(id, desc)
                      /\ ~SanitizerRule(id, desc)
                      /\ ~SourceRule(id, desc)

\* an identifier with a map token and a drug token was classified sink
C8_Witness ==
    /\ pc = "returned"
    /\ Contains(s_map, Lower(arg_node_id))
    /\ Contains(s_drug, Lower(arg_node_id))
    /\ node_class = s_sink

---------------------------------------------------------------------------
(* watt_lib.py: generate_watts_strogatz_facts                              *)

WattsN == 8     \* largest n
WattsK == 2     \* largest k

s_pii_compound == <<"p","i","i","_">> \o s_compound
s_interacts    == <<"i","n","t","e","r","a","c","t","s">>

Min(a, b) == IF a <= b THEN a ELSE b
Max(a, b) == IF a <= b THEN b ELSE a

\* an undirected edge as G_und.edges() reports it: (u, v) with u the endpoint
\* that entered the graph first; watts_strogatz_graph adds the nodes in the
\* order 0..n-1
Reported(u, v) == <<Min(u, v), Max(u, v)>>

\* the ring lattice: every node joined to its k // 2 neighbours on the right
Ring(nn, k) ==
    {Reported(i, (i + j) % nn) : i \in 0..(nn - 1), j \in 1..(k \div 2)}

Adj(G, u) == {v \in 0..WattsN : <<u, v>> \in G \/ <<v, u>> \in G}

\* the graphs nx.watts_strogatz_graph(n, k, p, seed) of line 17 can return
\* after at most one rewiring: edge (u, v) replaced by (u, w), w not u and
\* not a neighbour of u
WSGraphs(nn, k) ==
    {Ring(nn, k)} \cup
    {(Ring(nn, k) \ {Reported(u, (u + j) % nn)}) \cup {Reported(u, w)} :
        <<u, j, w>> \in
            {t \in (0..(nn - 1)) \X (1..(k \div 2)) \X (0..(nn - 1)) :
                t[3] # t[1] /\ t[3] \notin Adj(Ring(nn, k), t[1])}}

\* lines 20-31
RoleOf(v, nn) ==
    LET source == 0
        sink == nn - 1
    IN  IF v = source THEN s_source
        ELSE IF v = sink THEN s_sink
        ELSE IF v % 5 = 0 THEN s_sanitizer
        ELSE s_normal

\* line 34: the condition of the list comprehension
IsSensitive(v, nn) == v % 3 = 0 /\ v \notin {0, nn - 1}

\* a variant of sorted() that keeps the order of arrival
InsortNodeUnsorted(q, v) == Append(q, v)

\* sorted(): the next item v goes after the items that are <= v
InsortNode(q, v) ==
    LET k == Cardinality({i \in 1..Len(q) : q[i] <= v})
    IN  SubSeq(q, 1, k) \o <<v>> \o SubSeq(q, k + 1, Len(q))

\* tuple comparison
TupleLeq(a, b) == a[1] < b[1] \/ (a[1] = b[1] /\ a[2] <= b[2])

\* sorted() on (u, v) tuples
InsortEdge(q, e) ==
    LET k == Cardinality({i \in 1..Len(q) : TupleLeq(q[i], e)})
    IN  SubSeq(q, 1, k) \o <<e>> \o SubSeq(q, k + 1, Len(q))

\* sorted(list)
RECURSIVE SortedList(_)
SortedList(q) ==
    IF q = <<>> THEN <<>>
    ELSE InsortNode(SortedList(SubSeq(q, 1, Len(q) - 1)), q[Len(q)])

\* f"{prefix}{idx}"
Label(prefix, idx) == <<prefix>> \o Decimal(idx)

InitWatts ==
    /\ pc = "roles"
    /\ \E k \in 2..WattsK :
          /\ param_n \in (k + 1)..WattsN
          /\ G_und \in WSGraphs(param_n, k)
    /\ pending = 0..(param_n - 1)
    /\ dict_node_type = <<>>
    /\ sensitive_nodes = <<>>
    /\ sorted_list = <<>>
    /\ nodes_facts = <<>>
    /\ edges_facts = <<>>
    /\ sensitive_facts = <<>>
    /\ nodes = {}
    /\ edges = <<>>
    /\ IdleFact /\ IdleTsv /\ IdleClassify

\* the enumeration yields v; after the last item the next statement starts,
\* with the enumeration `next` of it
Yield(v, nextPc, next) ==
    IF pending = {v}
    THEN pc' = nextPc /\ pending' = next
    ELSE pc' = pc /\ pending' = pending \ {v}

\* lines 23-31: one iteration of `for v in G_und.nodes()`
AssignRole(v) ==
    /\ pc = "roles"
    /\ v \in pending
    /\ dict_node_type' =
          [x \in DOMAIN dict_node_type \cup {v} |->
              IF x = v THEN RoleOf(v, param_n) ELSE dict_node_type[x]]
    /\ Yield(v, "sensitive", 0..(param_n - 1))
    /\ UNCHANGED <<param_n, G_und, sensitive_nodes, sorted_list,
                   nodes_facts, edges_facts, sensitive_facts>>
    /\ UNCHANGED <<nodes, edges, factIn, tsvVars, clsVars>>

\* line 34: one item of the list comprehension over G_und.nodes()
CollectSensitive(v) ==
    /\ pc = "sensitive"
    /\ v \in pending
    /\ sensitive_nodes' = IF IsSensitive(v, param_n)
                          THEN Append(sensitive_nodes, v) ELSE sensitive_nodes
    /\ Yield(v, "sort_nodes", 0..(param_n - 1))
    /\ UNCHANGED <<param_n, G_und, dict_node_type, sorted_list,
                   nodes_facts, edges_facts, sensitive_facts>>
    /\ UNCHANGED <<nodes, edges, factIn, tsvVars, clsVars>>

\* line 40: sorted(G_und.nodes()) takes one more node
SortNodes(v) ==
    /\ pc = "sort_nodes"
    /\ v \in pending
    /\ sorted_list' = InsortNode(sorted_list, v)
    /\ Yield(v, "write_nodes", {})
    /\ UNCHANGED <<param_n, G_und, dict_node_type, sensitive_nodes,
                   nodes_facts, edges_facts, sensitive_facts>>
    /\ UNCHANGED <<nodes, edges, factIn, tsvVars, clsVars>>

\* lines 38-41
WriteNodes ==
    /\ pc = "write_nodes"
    /\ nodes_facts' =
          [i \in 1..Len(sorted_list) |->
              <<Label("N", i - 1), Decimal(sorted_list[i]),
                dict_node_type[sorted_list[i]]>>]
    /\ sorted_list' = <<>>
    /\ IF G_und = {} THEN pc' = "write_edges" ELSE pc' = "sort_edges"
    /\ pending' = G_und
    /\ UNCHANGED <<param_n, G_und, dict_node_type, sensitive_nodes,
                   edges_facts, sensitive_facts>>
    /\ UNCHANGED <<nodes, edges, factIn, tsvVars, clsVars>>

\* line 47: sorted(G_und.edges()) takes one more edge
SortEdges(e) ==
    /\ pc = "sort_edges"
    /\ e \in pending
    /\ sorted_list' = InsortEdge(sorted_list, e)
    /\ Yield(e, "write_edges", {})
    /\ UNCHANGED <<param_n, G_und, dict_node_type, sensitive_nodes,
                   nodes_facts, edges_facts, sensitive_facts>>
    /\ UNCHANGED <<nodes, edges, factIn, tsvVars, clsVars>>

\* lines 44-49: two rows per edge, E{eidx} with eidx counting the rows
WriteEdges ==
    /\ pc = "write_edges"
    /\ edges_facts' =
          [i \in 1..(2 * Len(sorted_list)) |->
              LET e == sorted_list[(i + 1) \div 2]
              IN  IF i % 2 = 1
                  THEN <<Label("E", i - 1), Decimal(e[1]), Decimal(e[2]),
                         s_interacts>>
                  ELSE <<Label("E", i - 1), Decimal(e[2]), Decimal(e[1]),
                         s_interacts>>]
    /\ sorted_list' = <<>>
    /\ pc' = "write_sensitive"
    /\ UNCHANGED <<param_n, G_und, pending, dict_node_type, sensitive_nodes,
                   nodes_facts, sensitive_facts>>
    /\ UNCHANGED <<nodes, edges, factIn, tsvVars, clsVars>>

\* lines 52-55
WriteSensitive ==
    /\ pc = "write_sensitive"
    /\ LET srt == SortedList(sensitive_nodes)
       IN  sensitive_facts' =
              [i \in 1..Len(srt) |->
                  <<Label("S", i - 1), Decimal(srt[i]), s_pii_compound>>]
    /\ pc' = "done"
    /\ UNCHANGED <<param_n, G_und, pending, dict_node_type, sensitive_nodes,
                   sorted_list, nodes_facts, edges_facts>>
    /\ UNCHANGED <<nodes, edges, factIn, tsvVars, clsVars>>

NextWatts ==
    \/ \E v \in 0..WattsN : AssignRole(v)
    \/ \E v \in 0..WattsN : CollectSensitive(v)
    \/ \E v \in 0..WattsN : SortNodes(v)
    \/ WriteNodes
    \/ \E e \in (0..WattsN) \X (0..WattsN) : SortEdges(e)
    \/ WriteEdges
    \/ WriteSensitive

SpecWatts == InitWatts /\ [][NextWatts]_vars

\* the j-th smallest tuple of G in lexicographic order
NthTuple(G, j) ==
    CHOOSE e \in G :
        Cardinality({f \in G : f[1] < e[1] \/ (f[1] = e[1] /\ f[2] < e[2])})
            = j - 1

\* C9: the three files written are a function of n and of the graph alone,
\* whatever the order in which nodes and edges were enumerated: row i of
\* nodes.facts is node i-1 with index i-1, the rows of edges.facts follow the
\* edges in lexicographic order, the rows of sensitive.facts follow the
\* sensitive nodes in ascending order.
C9_OutputDeterministic ==
    pc = "done" =>
        LET S == {v \in 0..(param_n - 1) : IsSensitive(v, param_n)}
        IN  /\ nodes_facts =
                  [i \in 1..param_n |->
                      <<Label("N", i - 1), Decimal(i - 1),
                        RoleOf(i - 1, param_n)>>]
            /\ Len(edges_facts) = 2 * Cardinality(G_und)
            /\ \A j \in 1..Cardinality(G_und) :
                  LET e == NthTuple(G_und, j)
                  IN  /\ edges_facts[2 * j - 1] =
                            <<Label("E", 2 * j - 2), Decimal(e[1]),
                              Decimal(e[2]), s_interacts>>
                      /\ edges_facts[2 * j] =
                            <<Label("E", 2 * j - 1), Decimal(e[2]),
                              Decimal(e[1]), s_interacts>>
            /\ Len(sensitive_facts) = Cardinality(S)
            /\ \A j \in 1..Cardinality(S) :
                  sensitive_facts[j] =
                      <<Label("S", j - 1), Decimal(Nth(S, j)), s_pii_compound>>

\* the sensitive nodes were enumerated in descending order, and the file is
\* written
C9_Witness ==
    /\ pc = "done"
    /\ Len(sensitive_nodes) >= 2
    /\ sensitive_nodes[1] > sensitive_nodes[2]
    /\ Len(sensitive_facts) = Len(sensitive_nodes)

====
